---- MODULE Spec2Model ----
(***************************************************************************)
(* Memory Match PWA service worker (src/sw.js): the install and activate   *)
(* lifecycle handlers, the fetch handler with its network-first strategy,  *)
(* and the message handler, over the host's CacheStorage.                  *)
(*                                                                         *)
(* CacheStorage is a map from partition names to Cache objects.  A Cache   *)
(* object keeps working for whoever holds it after caches.delete() has     *)
(* removed its name, so the runtime partition, the one a handler holds     *)
(* across awaits, is a sequence of objects: the one the name maps to now,  *)
(* then the deleted ones that handlers in flight still hold.               *)
(*                                                                         *)
(* The install handler is one action; the activate handler is its sweep    *)
(* followed by clients.claim(); a CLEAR_CACHE message is caches.keys()     *)
(* followed by the deletes; the sync, push, notificationclick and          *)
(* periodicsync handlers are one action each.  A fetch handler             *)
(* takes three steps, because several are in flight at once: the event up  *)
(* to fetch(), the outcome of fetch() up to the return, and the outcome of *)
(* the detached cache.put().                                               *)
(***************************************************************************)
EXTENDS Naturals, Sequences, FiniteSets, Bags, TLC

\* ------------------------------------------------------------------ bounds
\* Event handlers in flight at the same time.
MaxHandlers == 2

\* ------------------------------------------------------- program constants
CACHE_NAME == "memory-match-v2.3.0"
RUNTIME_CACHE == "memory-match-runtime"
STATIC_ASSETS == <<"./", "./index.html", "./manifest.json", "./logo.png">>

\* A partition left behind by the previous version of the worker.
OLD_CACHE == "memory-match-v2.2.0"
CacheNames == {CACHE_NAME, RUNTIME_CACHE, OLD_CACHE}

\* ------------------------------------------------------------ requests
\* The scope the worker is served from: relative paths resolve against it.
Scope == "https://memory-match.app/"
ResolveURL(path) == Scope \o SubSeq(path, 3, Len(path))
StaticURLs == {ResolveURL(STATIC_ASSETS[i]) : i \in 1..Len(STATIC_ASSETS)}

IndexURL == ResolveURL("./index.html")
MissingURL == "http://memory-match.app/missing.json"
ExtensionURL == "chrome-extension://abcdef/content.js"

\* The requests the pages and the browser send through the fetch event.
Requests ==
    { [method |-> "GET",  url |-> IndexURL],
      [method |-> "GET",  url |-> MissingURL],
      [method |-> "POST", url |-> IndexURL],
      [method |-> "GET",  url |-> ExtensionURL] }
NoRequest == [method |-> "", url |-> ""]
AllURLs == StaticURLs \cup {r.url : r \in Requests}

\* new URL(request.url).protocol: the URL up to and including its first colon.
RECURSIVE ColonAt(_, _)
ColonAt(s, i) ==
    IF i > Len(s) THEN 0
    ELSE IF SubSeq(s, i, i) = ":" THEN i ELSE ColonAt(s, i + 1)
Protocol(url) == SubSeq(url, 1, ColonAt(url, 1))
\* String.prototype.startsWith
StartsWith(s, prefix) == Len(s) >= Len(prefix) /\ SubSeq(s, 1, Len(prefix)) = prefix

\* ------------------------------------------------------------ responses
\* The bodies the server has for an asset: the deployed one and a later
\* revision of it.
Bodies == {"v1", "v2"}
StatusText(s) == IF s = 200 THEN "OK" ELSE "Not Found"
NetResponse(u, s, b) ==
    [url |-> u, status |-> s, statusText |-> StatusText(s),
     contentType |-> "", error |-> "", payload |-> b]
\* What cache.match() resolves to on a miss, and a handler's response
\* before it has one.
NoEntry ==
    [url |-> "", status |-> 0, statusText |-> "", contentType |-> "",
     error |-> "", payload |-> ""]
\* A fetch() that rejects (offline, DNS error, timeout).
NetworkError ==
    [url |-> "", status |-> 0, statusText |-> "", contentType |-> "",
     error |-> "TypeError: Failed to fetch", payload |-> ""]
\* new Response(JSON.stringify({error, message}), {headers, status, statusText})
OfflineResponse ==
    [url |-> "", status |-> 503, statusText |-> "Service Unavailable",
     contentType |-> "application/json",
     error |-> "Offline and resource not cached", payload |-> ""]
\* What the server answers for a URL when the network is up: an asset of the
\* application with status 200 and one of its bodies, or 404 once it was
\* removed; anything else with 404.
Served(u) ==
    IF u \in StaticURLs
    THEN {NetResponse(u, 200, b) : b \in Bodies} \cup {NetResponse(u, 404, "")}
    ELSE {NetResponse(u, 404, "")}
\* Response.ok, which cache.addAll() requires of every response.
IsOk(resp) == resp.status >= 200 /\ resp.status <= 299

\* ------------------------------------------------------------ state
VARIABLES
    lcState,          \* "installing", "installed", "activating", "activated",
                      \* "redundant"
    skipWaitingFlag,  \* self.skipWaiting() has been called
    claimed,          \* self.clients.claim() has been called
    caches,           \* CacheStorage: whether each partition name exists
    static,           \* the entries of partition CACHE_NAME
    runtime,          \* the objects of RUNTIME_CACHE: runtime[1] is the one the
                      \* name maps to, runtime[1 + k] the k-th last deleted one
                      \* that a handler still holds
    hs,               \* the fetch handlers in flight (a bag of records)
    installed,        \* history: the responses the install handler stored
    bg,               \* the handler of an event other than fetch that is in
                      \* flight or has just settled, NoEvent for none
    swept,            \* history: the names the running activate handler deleted
    lastWritten       \* history: per runtime object and URL, the last put applied

vars == <<lcState, skipWaitingFlag, claimed, caches, static, runtime, hs, bg,
          installed, swept, lastWritten>>

EmptyCache == [u \in AllURLs |-> NoEntry]

\* A handler: its position, its request, the runtime object it holds
\* (an index of `runtime`, 0 for none), the response it returned and where
\* that came from, the state of its detached put, and (history) whether a
\* status-200 response for its URL had been seen when it started, and
\* whether the runtime object it holds has had an entry for its URL since
\* before a CLEAR_CACHE was issued.
NewHandler ==
    [pc |-> "idle", req |-> NoRequest, cache |-> 0, resp |-> NoEntry,
     src |-> "", put |-> "none", after200 |-> FALSE, stale |-> FALSE]
InFlight == BagToSet(hs)
\* History: a CLEAR_CACHE is issued while the handler waits for the network
\* and the runtime object it holds has an entry for its request.
MarkStale(h, rt) ==
    IF h.pc = "fetching" /\ h.cache = 1 /\ rt[1][h.req.url] # NoEntry
    THEN [h EXCEPT !.stale = TRUE] ELSE h
\* History: a put has replaced the entry for the URL in object i.
MarkFresh(h, i, url) ==
    IF h.cache = i /\ h.req.url = url THEN [h EXCEPT !.stale = FALSE] ELSE h

\* An event other than fetch: the listener it went to, its tag, type or
\* action, the names caches.keys() gave it, its position, and the task it
\* passed to event.waitUntil() ("" when it passed none).
NoEvent == [listener |-> "", arg |-> "", names |-> {}, pc |-> "", task |-> ""]
\* The handlers in flight.
Busy == BagCardinality(hs) + (IF bg = NoEvent THEN 0 ELSE 1)
Replace(bag, r, r2) == (bag (-) SetToBag({r})) (+) SetToBag({r2})

\* ------------------------------------------------------------ CacheStorage
\* The runtime objects with the handlers that hold them: rt the objects,
\* lw the history of the puts applied to each, h the handlers.
Storage(rt, lw, h) == [rt |-> rt, lw |-> lw, h |-> h]
Held(st, i) == \E r \in BagToSet(st.h) : r.cache = i

RemoveAt(seq, i) == SubSeq(seq, 1, i - 1) \o SubSeq(seq, i + 1, Len(seq))
ShiftDown(r, i) == [r EXCEPT !.cache = IF @ > i THEN @ - 1 ELSE @]
ShiftUp(r) == [r EXCEPT !.cache = IF @ > 0 THEN @ + 1 ELSE @]
\* The bag with every handler renumbered (both renumberings are injective).
ShiftDownAll(bag, i) ==
    [r2 \in {ShiftDown(r, i) : r \in BagToSet(bag)} |->
        bag[CHOOSE r \in BagToSet(bag) : ShiftDown(r, i) = r2]]
ShiftUpAll(bag) ==
    [r2 \in {ShiftUp(r) : r \in BagToSet(bag)} |->
        bag[CHOOSE r \in BagToSet(bag) : ShiftUp(r) = r2]]

\* A deleted object no handler holds any more is forgotten.
RECURSIVE Collect(_, _)
Collect(st, i) ==
    IF i > Len(st.rt) THEN st
    ELSE IF Held(st, i) THEN Collect(st, i + 1)
    ELSE Collect([rt |-> RemoveAt(st.rt, i), lw |-> RemoveAt(st.lw, i),
                  h  |-> ShiftDownAll(st.h, i)], i)
Collected(st) == Collect(st, 2)

\* caches.delete(RUNTIME_CACHE): the name is removed from the map.  A
\* handler that holds the object keeps it, and it stays functional, but no
\* later caches.open(RUNTIME_CACHE) returns it.
DeleteRuntime(st) ==
    IF Held(st, 1)
    THEN [rt |-> <<EmptyCache>> \o st.rt, lw |-> <<EmptyCache>> \o st.lw,
          h  |-> ShiftUpAll(st.h)]
    ELSE [st EXCEPT !.rt[1] = EmptyCache, !.lw[1] = EmptyCache]

\* caches.keys(), in a fixed order (the handlers map over all of them).
NameOrder == <<CACHE_NAME, RUNTIME_CACHE, OLD_CACHE>>
CachesKeys(cs) == SelectSeq(NameOrder, LAMBDA n : cs[n])
Range(seq) == {seq[i] : i \in 1..Len(seq)}

\* Mutant: opening a partition deletes the others.
CachesOpenOnly(cs, name) == [n \in CacheNames |-> n = name]
\* Mutant: an absent partition is not created.
CachesOpenExisting(cs, name) == cs
\* caches.open(name): the name exists from then on (its object is created
\* empty if it did not).
CachesOpen(cs, name) == [cs EXCEPT ![name] = TRUE]
\* Mutant: a name that is not deleted is created.
CachesDeleteAllOrCreate(cs, names) == [n \in CacheNames |-> n \notin names /\ ~cs[n]]
\* Mutant: the runtime partition is spared.
CachesDeleteAllButRuntime(cs, names) ==
    [n \in CacheNames |-> cs[n] /\ (n \notin names \/ n = RUNTIME_CACHE)]
\* Promise.all(names.map(caches.delete)) on the name map ...
CachesDeleteAll(cs, names) == [n \in CacheNames |-> cs[n] /\ n \notin names]
\* ... on the static entries ...
StaticAfterDelete(c, names) == IF CACHE_NAME \in names THEN EmptyCache ELSE c
\* ... and on the runtime objects.
RuntimeAfterDelete(st, cs, names) ==
    IF RUNTIME_CACHE \in names /\ cs[RUNTIME_CACHE] THEN DeleteRuntime(st) ELSE st

\* cache.match(request)
CacheMatch(c, url) == c[url]
\* Mutant: a second write for a request is appended to the first.
CachePutAppend(c, url, resp) ==
    IF c[url] # NoEntry /\ c[url].payload # resp.payload
    THEN [c EXCEPT ![url] = [resp EXCEPT !.payload = c[url].payload \o resp.payload]]
    ELSE [c EXCEPT ![url] = resp]
\* Mutant: an entry already there is kept.
CachePutIfAbsent(c, url, resp) == IF c[url] # NoEntry THEN c ELSE [c EXCEPT ![url] = resp]
\* cache.put(request, response)
CachePut(c, url, resp) == [c EXCEPT ![url] = resp]

\* ------------------------------------------------------------ Init
\* The worker script has been evaluated and its install event is pending.
\* The origin's CacheStorage holds what earlier versions left: possibly the
\* previous version's static partition, possibly a runtime partition.
PriorRuntime ==
    { EmptyCache,
      [EmptyCache EXCEPT ![IndexURL] = NetResponse(IndexURL, 200, "v1")] }

Init ==
    /\ lcState = "installing"
    /\ skipWaitingFlag = FALSE
    /\ claimed = FALSE
    /\ hs = EmptyBag
    /\ bg = NoEvent
    /\ static = EmptyCache
    /\ installed = EmptyCache
    /\ swept = {}
    /\ \E hasOld \in BOOLEAN, hasRuntime \in BOOLEAN, rt \in PriorRuntime :
        /\ hasRuntime = FALSE => rt = EmptyCache
        /\ caches = [n \in CacheNames |->
                        CASE n = OLD_CACHE     -> hasOld
                          [] n = RUNTIME_CACHE -> hasRuntime
                          [] OTHER             -> FALSE]
        /\ runtime = <<rt>>
        /\ lastWritten = <<rt>>

\* ------------------------------------------------------------ install
\* What the network answers to cache.addAll(STATIC_ASSETS): one outcome per
\* asset.  The assets in `bad` fail (the fetch rejects, or answers 404); the
\* others are served with status 200.
InstallFetches ==
    { [u \in StaticURLs |-> IF u \in bad THEN f ELSE NetResponse(u, 200, "v1")] :
        bad \in SUBSET StaticURLs,
        f \in {NetworkError, NetResponse(ResolveURL("./"), 404, "")} }

\* Mutant: resolves as soon as one of the requests was fetched.
AddAllOkAny(r) == \E u \in StaticURLs : IsOk(r[u])
\* cache.addAll() resolves only if every request was fetched with an ok status.
AddAllOk(r) == \A u \in StaticURLs : IsOk(r[u])
\* Mutant: a response is stored under the other URLs as well.
AddAllStoreEverywhere(c, r) ==
    [u \in AllURLs |-> IF u \in StaticURLs THEN r[u] ELSE r[ResolveURL(STATIC_ASSETS[1])]]
\* Mutant: stores the first response under every request.
AddAllStoreFirst(c, r) ==
    [u \in AllURLs |-> IF u \in StaticURLs THEN r[ResolveURL(STATIC_ASSETS[1])] ELSE c[u]]
\* Mutant: the last request of the list is left out.
AddAllStoreButLast(c, r) ==
    [u \in AllURLs |->
        IF u \in StaticURLs /\ u # ResolveURL(STATIC_ASSETS[Len(STATIC_ASSETS)])
        THEN r[u] ELSE c[u]]
\* cache.addAll() then stores every response under its request.
AddAllStore(c, r) == [u \in AllURLs |-> IF u \in StaticURLs THEN r[u] ELSE c[u]]

\* self.addEventListener('install', ...)
Install(r) ==
    /\ lcState = "installing"
    /\ caches' = CachesOpen(caches, CACHE_NAME)
    /\ IF AddAllOk(r)
       THEN /\ static' = AddAllStore(static, r)
            /\ installed' = [u \in AllURLs |-> IF u \in StaticURLs THEN r[u] ELSE NoEntry]
            /\ skipWaitingFlag' = TRUE
            /\ lcState' = "installed"
       ELSE /\ lcState' = "redundant"
            /\ UNCHANGED <<static, installed, skipWaitingFlag>>
    /\ UNCHANGED <<claimed, runtime, hs, bg, swept, lastWritten>>

\* ------------------------------------------------------------ activate
\* Mutant: the runtime partition is swept too.
ActivateKeepsStaticOnly(cacheName) == cacheName = CACHE_NAME
\* cacheName !== CACHE_NAME && cacheName !== RUNTIME_CACHE is what is deleted.
ActivateKeeps(cacheName) == cacheName = CACHE_NAME \/ cacheName = RUNTIME_CACHE

\* self.addEventListener('activate', ...), up to the end of the sweep.  The
\* host activates an installed worker once skipWaiting() was called or no
\* page uses an older one.
ActivateSweep ==
    /\ lcState = "installed"
    /\ LET doomed == {n \in Range(CachesKeys(caches)) : ~ActivateKeeps(n)}
           st == RuntimeAfterDelete(Storage(runtime, lastWritten, hs), caches, doomed)
       IN /\ caches' = CachesDeleteAll(caches, doomed)
          /\ static' = StaticAfterDelete(static, doomed)
          /\ runtime' = st.rt
          /\ lastWritten' = st.lw
          /\ hs' = st.h
          /\ swept' = doomed
    /\ lcState' = "activating"
    /\ UNCHANGED <<skipWaitingFlag, claimed, bg, installed>>

\* .then(() => self.clients.claim()): the handler completes and the worker
\* is active.
ActivateClaim ==
    /\ lcState = "activating"
    /\ claimed' = TRUE
    /\ lcState' = "activated"
    /\ swept' = {}
    /\ UNCHANGED <<skipWaitingFlag, caches, static, runtime, hs, bg, installed,
                   lastWritten>>

\* ------------------------------------------------------------ fetch
\* Mutant: the method is not looked at.
InterceptsAnyMethod(request) == StartsWith(Protocol(request.url), "http")
\* Mutant: the protocol is not looked at.
InterceptsAnyProtocol(request) == request.method = "GET"
\* The fetch listener calls event.respondWith() unless it returns early.
Intercepts(request) ==
    /\ ~(request.method # "GET")
    /\ ~(~StartsWith(Protocol(request.url), "http"))
\* Mutant: every response is cached, whatever its status.
ShouldCacheAny(networkResponse) == networkResponse # NoEntry
\* networkResponse && networkResponse.status === 200
ShouldCache(networkResponse) ==
    networkResponse # NoEntry /\ networkResponse.status = 200

\* A status-200 response for the URL has been seen: a handler in flight
\* has received one.
Observed200(u) ==
    \E g \in InFlight : /\ g.pc = "done" /\ g.src = "network"
                        /\ g.req.url = u /\ g.resp.status = 200

\* self.addEventListener('fetch', ...) up to the await fetch(request) of
\* networkFirstStrategy, past its caches.open(RUNTIME_CACHE).
FetchEvent(request) ==
    /\ lcState = "activated"
    /\ Busy < MaxHandlers
    /\ IF Intercepts(request)
       THEN /\ caches' = CachesOpen(caches, RUNTIME_CACHE)
            /\ hs' = hs (+) SetToBag({[NewHandler EXCEPT
                            !.pc = "fetching", !.req = request, !.cache = 1,
                            !.after200 = Observed200(request.url)]})
       ELSE /\ hs' = hs (+) SetToBag({[NewHandler EXCEPT
                            !.pc = "passthrough", !.req = request]})
            /\ UNCHANGED caches
    /\ UNCHANGED <<lcState, skipWaitingFlag, claimed, static, runtime, bg, installed,
                   swept, lastWritten>>

\* Mutant: the response is held back until the put has settled.
ResolvedAfterPut(r, networkResponse) ==
    IF networkResponse # NoEntry /\ networkResponse.status = 200
    THEN [r EXCEPT !.pc = "awaiting", !.resp = networkResponse, !.src = "network",
                   !.put = "pending", !.after200 = FALSE,
                   !.stale = FALSE]
    ELSE [r EXCEPT !.pc = "done", !.resp = networkResponse, !.src = "network",
                   !.cache = 0, !.after200 = FALSE,
                   !.stale = FALSE]
\* Mutant: a response that is not ok is replaced by the synthesized one.
ResolvedOkOnly(r, networkResponse) ==
    IF networkResponse # NoEntry /\ networkResponse.status = 200
    THEN [r EXCEPT !.pc = "done", !.resp = networkResponse, !.src = "network",
                   !.put = "pending", !.after200 = FALSE,
                   !.stale = FALSE]
    ELSE [r EXCEPT !.pc = "done", !.resp = OfflineResponse, !.src = "network",
                   !.cache = 0, !.after200 = FALSE,
                   !.stale = FALSE]
\* await fetch(request) resolves: the response is returned, after a detached
\* cache.put() of its clone when ShouldCache.
Resolved(r, networkResponse) ==
    IF ShouldCache(networkResponse)
    THEN [r EXCEPT !.pc = "done", !.resp = networkResponse, !.src = "network",
                   !.put = "pending", !.after200 = FALSE,
                   !.stale = FALSE]
    ELSE [r EXCEPT !.pc = "done", !.resp = networkResponse, !.src = "network",
                   !.cache = 0, !.after200 = FALSE,
                   !.stale = FALSE]

FetchResolve(r, networkResponse) ==
    /\ r \in InFlight
    /\ r.pc = "fetching"
    /\ networkResponse \in Served(r.req.url)
    /\ LET st == Collected(Storage(runtime, lastWritten,
                                   Replace(hs, r, Resolved(r, networkResponse))))
       IN /\ hs' = st.h
          /\ runtime' = st.rt
          /\ lastWritten' = st.lw
    /\ UNCHANGED <<lcState, skipWaitingFlag, claimed, caches, static, bg, installed,
                   swept>>

\* const cachedResponse = await cache.match(request)
RuntimeLookup(rt, r) == CacheMatch(rt[r.cache], r.req.url)
\* const staticResponse = await staticCache.match(request)
StaticLookup(c, r) == CacheMatch(c, r.req.url)
\* Mutant: the static partition is consulted first.
FallbackStaticFirst(rt, c, r) ==
    LET cachedResponse == CacheMatch(rt[r.cache], r.req.url)
        staticResponse == CacheMatch(c, r.req.url)
    IN IF staticResponse # NoEntry
       THEN [r EXCEPT !.pc = "done", !.resp = staticResponse, !.src = "static",
                      !.cache = 0, !.after200 = FALSE,
                   !.stale = FALSE]
       ELSE IF cachedResponse # NoEntry
       THEN [r EXCEPT !.pc = "done", !.resp = cachedResponse, !.src = "runtime",
                      !.cache = 0, !.after200 = FALSE,
                   !.stale = FALSE]
       ELSE [r EXCEPT !.pc = "done", !.resp = OfflineResponse, !.src = "offline",
                      !.cache = 0, !.after200 = FALSE,
                   !.stale = FALSE]
\* The catch block: the runtime entry, else the static entry, else the
\* synthesized response.
Fallback(rt, c, r) ==
    LET cachedResponse == RuntimeLookup(rt, r)
        staticResponse == StaticLookup(c, r)
    IN IF cachedResponse # NoEntry
       THEN [r EXCEPT !.pc = "done", !.resp = cachedResponse, !.src = "runtime",
                      !.cache = 0, !.after200 = FALSE,
                   !.stale = FALSE]
       ELSE IF staticResponse # NoEntry
       THEN [r EXCEPT !.pc = "done", !.resp = staticResponse, !.src = "static",
                      !.cache = 0, !.after200 = FALSE,
                   !.stale = FALSE]
       ELSE [r EXCEPT !.pc = "done", !.resp = OfflineResponse, !.src = "offline",
                      !.cache = 0, !.after200 = FALSE,
                   !.stale = FALSE]

\* await fetch(request) rejects: the catch block runs.  Its lookups only
\* read, so they are taken in one step; caches.open(CACHE_NAME) is reached
\* when the runtime lookup misses.
FetchReject(r) ==
    /\ r \in InFlight
    /\ r.pc = "fetching"
    /\ LET r2 == Fallback(runtime, static, r)
           st == Collected(Storage(runtime, lastWritten, Replace(hs, r, r2)))
       IN /\ hs' = st.h
          /\ runtime' = st.rt
          /\ lastWritten' = st.lw
          /\ caches' = IF r2.src = "runtime" THEN caches
                       ELSE CachesOpen(caches, CACHE_NAME)
    /\ UNCHANGED <<lcState, skipWaitingFlag, claimed, static, bg, installed, swept>>

\* The detached cache.put(request, networkResponse.clone()) resolves.
PutResolve(r) ==
    /\ r \in InFlight
    /\ r.put = "pending"
    /\ LET st == Collected(Storage(
                    [runtime EXCEPT ![r.cache] = CachePut(@, r.req.url, r.resp)],
                    [lastWritten EXCEPT ![r.cache][r.req.url] = r.resp],
                    BagOfAll(LAMBDA h : MarkFresh(h, r.cache, r.req.url),
                        Replace(hs, r, [r EXCEPT !.put = "applied", !.cache = 0]))))
       IN /\ hs' = st.h
          /\ runtime' = st.rt
          /\ lastWritten' = st.lw
    /\ UNCHANGED <<lcState, skipWaitingFlag, claimed, caches, static, bg, installed,
                   swept>>

\* The detached cache.put() rejects (quota, storage error); nobody listens.
PutReject(r) ==
    /\ r \in InFlight
    /\ r.put = "pending"
    /\ LET st == Collected(Storage(runtime, lastWritten,
                    Replace(hs, r, [r EXCEPT !.put = "failed", !.cache = 0])))
       IN /\ hs' = st.h
          /\ runtime' = st.rt
          /\ lastWritten' = st.lw
    /\ UNCHANGED <<lcState, skipWaitingFlag, claimed, caches, static, bg, installed,
                   swept>>

\* The handler's work is over: its response is delivered, or the request
\* left to the browser, and its detached put has settled.
Finish(r) ==
    /\ r \in InFlight
    /\ r.pc \in {"done", "passthrough"}
    /\ r.put # "pending"
    /\ hs' = hs (-) SetToBag({r})
    /\ UNCHANGED <<lcState, skipWaitingFlag, claimed, caches, static, runtime, bg,
                   installed, swept, lastWritten>>

\* ------------------------------------------------------------ message
\* event.data of the messages the pages post.
Messages ==
    { [hasData |-> TRUE,  type |-> "SKIP_WAITING"],
      [hasData |-> TRUE,  type |-> "CLEAR_CACHE"],
      [hasData |-> TRUE,  type |-> "PING"],
      [hasData |-> TRUE,  type |-> ""],
      [hasData |-> FALSE, type |-> ""] }

\* event.data && event.data.type === 'SKIP_WAITING'
IsSkipWaiting(data) == data.hasData /\ data.type = "SKIP_WAITING"
\* Mutant: any message that carries data clears.
IsClearAnyData(data) == data.hasData
\* event.data && event.data.type === 'CLEAR_CACHE'
IsClear(data) == data.hasData /\ data.type = "CLEAR_CACHE"

\* self.addEventListener('message', ...): SKIP_WAITING calls
\* self.skipWaiting(); CLEAR_CACHE calls caches.keys() and passes the chain
\* to event.waitUntil(); anything else does nothing.
Message(data) ==
    /\ lcState # "redundant"
    /\ skipWaitingFlag' = IF IsSkipWaiting(data) THEN TRUE ELSE skipWaitingFlag
    /\ IF IsClear(data)
       THEN /\ bg = NoEvent
            /\ Busy < MaxHandlers
            /\ bg' = [listener |-> "message", arg |-> data.type,
                      names |-> Range(CachesKeys(caches)), pc |-> "deleting",
                      task |-> "clear"]
            /\ hs' = BagOfAll(LAMBDA h : MarkStale(h, runtime), hs)
       ELSE UNCHANGED <<bg, hs>>
    /\ UNCHANGED <<lcState, claimed, caches, static, runtime, installed, swept,
                   lastWritten>>

\* .then((cacheNames) => Promise.all(cacheNames.map((cacheName) =>
\* caches.delete(cacheName)))): every name caches.keys() gave is deleted.
ClearDelete ==
    /\ bg.listener = "message"
    /\ bg.pc = "deleting"
    /\ LET st == RuntimeAfterDelete(Storage(runtime, lastWritten, hs), caches, bg.names)
       IN /\ caches' = CachesDeleteAll(caches, bg.names)
          /\ static' = StaticAfterDelete(static, bg.names)
          /\ runtime' = st.rt
          /\ lastWritten' = st.lw
          /\ hs' = st.h
    /\ bg' = [bg EXCEPT !.pc = "done"]
    /\ UNCHANGED <<lcState, skipWaitingFlag, claimed, installed, swept>>

\* ------------------------------------------------- sync, push, periodicsync
SyncTags == {"sync-game-stats", "sync-scores"}
PeriodicSyncTags == {"daily-challenge", "weekly-challenge"}
\* event.data of a push: none, or JSON with a title.
PushTitles == {"", "New level"}
\* event.action of a notification click: the notification body, or one of
\* the two actions the push handler declares.
ClickActions == {"", "open", "close"}

\* An event is dispatched to the active worker, one at a time.
Dispatchable ==
    /\ lcState = "activated"
    /\ bg = NoEvent
    /\ Busy < MaxHandlers

\* Mutant: the sync listener recognizes no tag.
SyncTaskNone(tag) == ""
\* if (event.tag === 'sync-game-stats') event.waitUntil(syncGameStats())
SyncTask(tag) == IF tag = "sync-game-stats" THEN "syncGameStats" ELSE ""
\* if (event.tag === 'daily-challenge') event.waitUntil(checkDailyChallenge())
PeriodicSyncTask(tag) == IF tag = "daily-challenge" THEN "checkDailyChallenge" ELSE ""

\* self.addEventListener('sync', ...) with syncGameStats(), which returns
\* Promise.resolve()
Sync(tag) ==
    /\ Dispatchable
    /\ bg' = [listener |-> "sync", arg |-> tag, names |-> {}, pc |-> "done",
              task |-> SyncTask(tag)]
    /\ UNCHANGED <<lcState, skipWaitingFlag, claimed, caches, static, runtime, hs,
                   installed, swept, lastWritten>>

\* self.addEventListener('periodicsync', ...) with checkDailyChallenge(),
\* which returns Promise.resolve()
PeriodicSync(tag) ==
    /\ Dispatchable
    /\ bg' = [listener |-> "periodicsync", arg |-> tag, names |-> {}, pc |-> "done",
              task |-> PeriodicSyncTask(tag)]
    /\ UNCHANGED <<lcState, skipWaitingFlag, claimed, caches, static, runtime, hs,
                   installed, swept, lastWritten>>

\* self.addEventListener('push', ...): title = data.title || 'Memory Match'
Push(title) ==
    /\ Dispatchable
    /\ bg' = [listener |-> "push",
              arg |-> IF title # "" THEN title ELSE "Memory Match",
              names |-> {}, pc |-> "done", task |-> "showNotification"]
    /\ UNCHANGED <<lcState, skipWaitingFlag, claimed, caches, static, runtime, hs,
                   installed, swept, lastWritten>>

\* self.addEventListener('notificationclick', ...)
NotificationClick(action) ==
    /\ Dispatchable
    /\ bg' = [listener |-> "notificationclick", arg |-> action, names |-> {},
              pc |-> "done",
              task |-> IF action = "open" \/ action = "" THEN "openWindow" ELSE ""]
    /\ UNCHANGED <<lcState, skipWaitingFlag, claimed, caches, static, runtime, hs,
                   installed, swept, lastWritten>>

\* The task passed to event.waitUntil() has settled (at once when none was
\* passed) and the event is over.
EventDone ==
    /\ bg # NoEvent
    /\ bg.pc = "done"
    /\ bg' = NoEvent
    /\ UNCHANGED <<lcState, skipWaitingFlag, claimed, caches, static, runtime, hs,
                   installed, swept, lastWritten>>

\* ------------------------------------------------------------ specification
Next ==
    \/ \E r \in InstallFetches : Install(r)
    \/ ActivateSweep
    \/ ActivateClaim
    \/ \E request \in Requests : FetchEvent(request)
    \/ \E r \in InFlight : \E resp \in Served(r.req.url) : FetchResolve(r, resp)
    \/ \E r \in InFlight : FetchReject(r)
    \/ \E r \in InFlight : PutResolve(r)
    \/ \E r \in InFlight : PutReject(r)
    \/ \E r \in InFlight : Finish(r)
    \/ \E data \in Messages : Message(data)
    \/ ClearDelete
    \/ \E tag \in SyncTags : Sync(tag)
    \/ \E tag \in PeriodicSyncTags : PeriodicSync(tag)
    \/ \E title \in PushTitles : Push(title)
    \/ \E action \in ClickActions : NotificationClick(action)
    \/ EventDone

Spec == Init /\ [][Next]_vars

TypeOK ==
    /\ lcState \in {"installing", "installed", "activating", "activated", "redundant"}
    /\ Busy <= MaxHandlers
    /\ Len(runtime) = Len(lastWritten)
    /\ Len(runtime) <= 1 + MaxHandlers
    /\ \A r \in InFlight : r.cache <= Len(runtime)
    /\ \A i \in 2..Len(runtime) : \E r \in InFlight : r.cache = i
    /\ caches[CACHE_NAME] = FALSE => static = EmptyCache
    /\ caches[RUNTIME_CACHE] = FALSE => runtime[1] = EmptyCache

\* ------------------------------------------------------------ properties
\* Handler r takes a step in which it becomes r2 (the other handlers keep
\* their state, up to the renumbering of the runtime objects they hold).
Stepped(r, r2) ==
    /\ r \in InFlight
    /\ r2 \in BagToSet(hs')
    /\ hs' = Collected(Storage(runtime, lastWritten, Replace(hs, r, r2))).h
\* The keys of a partition.
Keys(c) == {u \in AllURLs : c[u] # NoEntry}

\* C1: when the network fetch of an intercepted request fails, the handler
\* returns the entry of the runtime partition it opened if that holds one
\* for the request, else the entry of the static partition if that holds
\* one, else the synthesized response with status 503; a runtime entry wins
\* over a static one.
C1_FallbackChain ==
    [][\A r \in InFlight : FetchReject(r) =>
         \E r2 \in BagToSet(hs') :
            /\ Stepped(r, r2)
            /\ r2.pc = "done"
            /\ r2.req = r.req
            /\ r2.resp = IF runtime[r.cache][r.req.url] # NoEntry
                         THEN runtime[r.cache][r.req.url]
                         ELSE IF static[r.req.url] # NoEntry
                         THEN static[r.req.url]
                         ELSE OfflineResponse
            /\ OfflineResponse.status = 503]_vars
\* A handler answered from the runtime partition although the static
\* partition holds another entry for the same request.
C1_Witness ==
    \E r \in InFlight :
        /\ r.pc = "done" /\ r.src = "runtime"
        /\ static[r.req.url] # NoEntry
        /\ static[r.req.url] # r.resp

\* C2: when the network fetch of an intercepted request succeeds, the
\* handler returns the network response as it is, whatever its status; a
\* put of it to the runtime partition is issued if and only if its status
\* is exactly 200, and what a put writes is that response under its
\* request; a response with another status changes no partition's entries.
C2_CacheOnly200 ==
    [][\A r \in InFlight :
         /\ \A resp \in Served(r.req.url) : FetchResolve(r, resp) =>
              \E r2 \in BagToSet(hs') :
                 /\ Stepped(r, r2)
                 /\ r2.pc = "done"
                 /\ r2.req = r.req
                 /\ r2.resp = resp
                 /\ (r2.put = "pending") = (resp.status = 200)
                 /\ (resp.status # 200 => r2.put = "none")
                 /\ static' = static
                 /\ runtime'[1] = runtime[1]
         /\ PutResolve(r) =>
              /\ r.resp.status = 200
              /\ r.src = "network"
              /\ Len(runtime') = Len(runtime) =>
                    runtime' = [runtime EXCEPT ![r.cache][r.req.url] = r.resp]
              /\ static' = static]_vars
\* One handler has returned a 404 and issued no put while the 200 another
\* returned is in the runtime partition.
C2_Witness ==
    /\ \E r \in InFlight :
        r.pc = "done" /\ r.src = "network" /\ r.resp.status = 404 /\ r.put = "none"
    /\ \E r \in InFlight :
        /\ r.pc = "done" /\ r.src = "network" /\ r.resp.status = 200
        /\ r.put = "applied" /\ runtime[1][r.req.url] = r.resp

\* C3 as stated: whenever the network is unavailable, a request for an
\* asset cached at install (and still in the static partition) is answered
\* with the response stored at install time, with status 200.
C3_AsStated ==
    \A r \in InFlight :
        (/\ r.pc = "done" /\ r.src # "network"
         /\ installed[r.req.url] # NoEntry
         /\ static[r.req.url] = installed[r.req.url])
            => (r.resp = installed[r.req.url] /\ r.resp.status = 200)
\* C3, amended: the static partition only ever holds what the install
\* handler stored in it, and a request answered from it while the network
\* is unavailable (the runtime partition the handler opened holds no entry
\* for it, and no CLEAR_CACHE deleted the static partition since install)
\* gets the response stored at install time.
C3_StaticAsInstalled ==
    /\ \A u \in Keys(static) : static[u] = installed[u]
    /\ \A r \in InFlight :
        (r.pc = "done" /\ r.src = "static")
            => (r.req.url \in StaticURLs /\ r.resp = installed[r.req.url])
\* A request for an installed asset was answered from the static partition.
C3_Witness ==
    \E r \in InFlight :
        /\ r.pc = "done" /\ r.src = "static"
        /\ r.req.url = IndexURL /\ r.resp = installed[IndexURL]
        /\ lcState = "activated"

C5_NonGetUntouched ==
    [][/\ \A request \in Requests :
            (FetchEvent(request) /\ request.method # "GET") =>
               /\ hs' = hs (+) SetToBag({[NewHandler EXCEPT
                                !.pc = "passthrough", !.req = request]})
               /\ UNCHANGED <<caches, static, runtime>>
       /\ \A r \in BagToSet(hs') : r.req.method # "GET" =>
            /\ r.pc = "passthrough" /\ r.cache = 0
            /\ r.resp = NoEntry /\ r.put = "none"
       /\ \A r \in InFlight : (r.req.method # "GET" /\ Finish(r)) =>
            UNCHANGED <<caches, static, runtime>>]_vars
\* A POST request has been left to the browser.
C5_Witness ==
    \E r \in InFlight : r.req.method = "POST" /\ r.pc = "passthrough"

\* C6: the fetch handler responds to a request, through
\* networkFirstStrategy, if and only if its method is GET and the scheme of
\* its URL is http or https; any other request is left to the browser and
\* nothing changes.
C6_InterceptedIffGetHttp ==
    [][\A request \in Requests : FetchEvent(request) =>
         LET eligible == /\ request.method = "GET"
                         /\ Protocol(request.url) \in {"http:", "https:"}
         IN IF eligible
            THEN /\ caches'[RUNTIME_CACHE]
                 /\ hs' = hs (+) SetToBag({[NewHandler EXCEPT
                              !.pc = "fetching", !.req = request, !.cache = 1,
                              !.after200 = Observed200(request.url)]})
            ELSE /\ hs' = hs (+) SetToBag({[NewHandler EXCEPT
                              !.pc = "passthrough", !.req = request]})
                 /\ UNCHANGED <<caches, static, runtime>>]_vars
\* A GET request of an extension is left to the browser while a GET request
\* over http is being answered.
C6_Witness ==
    /\ \E r \in InFlight : r.req.url = ExtensionURL /\ r.pc = "passthrough"
    /\ \E r \in InFlight : Protocol(r.req.url) = "http:" /\ r.pc = "fetching"

\* C7: the synthesized response (status 503, status text Service
\* Unavailable, Content-Type application/json, error Offline and resource
\* not cached) is returned exactly when the network fetch failed and neither
\* the runtime partition the handler opened nor the static partition holds
\* the request; a handler whose fetch succeeded never returns it.
C7_OfflineOnlyWhenUncached ==
    [][\A r \in InFlight :
         /\ FetchReject(r) =>
              \E r2 \in BagToSet(hs') :
                 /\ Stepped(r, r2)
                 /\ r2.pc = "done"
                 /\ (r2.resp = OfflineResponse) =
                       (/\ runtime[r.cache][r.req.url] = NoEntry
                        /\ static[r.req.url] = NoEntry)
         /\ \A resp \in Served(r.req.url) : FetchResolve(r, resp) =>
              \E r2 \in BagToSet(hs') :
                 /\ Stepped(r, r2)
                 /\ r2.pc = "done"
                 /\ r2.resp # OfflineResponse
         /\ OfflineResponse.status = 503
         /\ OfflineResponse.statusText = "Service Unavailable"
         /\ OfflineResponse.contentType = "application/json"
         /\ OfflineResponse.error = "Offline and resource not cached"]_vars
\* The request for the missing resource was answered with the synthesized
\* response.
C7_Witness ==
    \E r \in InFlight :
        /\ r.pc = "done" /\ r.resp = OfflineResponse /\ r.src = "offline"
        /\ r.req.url = MissingURL

\* C8 as stated: after the activate handler, whatever partitions existed
\* before it, the current static partition exists, no partition other than
\* it and the runtime partition exists, and the runtime partition, if it
\* existed, still does with its entries.
C8_AsStated ==
    [][ActivateSweep =>
         /\ caches'[CACHE_NAME]
         /\ \A n \in CacheNames \ {CACHE_NAME, RUNTIME_CACHE} : ~caches'[n]
         /\ caches[RUNTIME_CACHE] => (caches'[RUNTIME_CACHE] /\ runtime' = runtime)]_vars
\* C8, amended: after the activate handler no partition other than the
\* current static partition and the runtime partition exists, so at most
\* one static partition remains, the current one, which exists with its
\* entries unchanged if and only if it existed before; the runtime
\* partition, if it existed, still does with its entries.
C8_ActivateSweep ==
    [][/\ ActivateClaim => UNCHANGED <<caches, static, runtime>>
       /\ ActivateSweep =>
         /\ caches'[CACHE_NAME] = caches[CACHE_NAME]
         /\ static' = static
         /\ \A n \in CacheNames \ {CACHE_NAME, RUNTIME_CACHE} : ~caches'[n]
         /\ caches'[RUNTIME_CACHE] = caches[RUNTIME_CACHE]
         /\ runtime' = runtime
         /\ swept' = {n \in CacheNames \ {CACHE_NAME, RUNTIME_CACHE} : caches[n]}]_vars
\* The activate handler has deleted the previous version's partition and
\* the current static partition and a non-empty runtime partition remain.
C8_Witness ==
    /\ lcState = "activating"
    /\ swept = {OLD_CACHE}
    /\ caches = [n \in CacheNames |-> n # OLD_CACHE]
    /\ Keys(static) = StaticURLs
    /\ Keys(runtime[1]) # {}

\* C9: if the fetch of one entry of the static asset list fails, the install
\* fails: the entries of the static partition stay as they were, the install
\* handler does not call skipWaiting(), and the worker never activates.
C9_InstallAllOrNothing ==
    [][/\ \A f \in InstallFetches :
            (Install(f) /\ \E u \in StaticURLs : ~IsOk(f[u])) =>
               /\ lcState' = "redundant"
               /\ static' = static
               /\ skipWaitingFlag' = skipWaitingFlag
       /\ lcState = "redundant" =>
            (lcState' = "redundant" /\ ~claimed' /\ swept' = {})]_vars
\* An install has failed: the static partition was opened and is empty, and
\* skipWaiting() was not called.
C9_Witness ==
    /\ lcState = "redundant"
    /\ caches[CACHE_NAME]
    /\ Keys(static) = {}
    /\ ~skipWaitingFlag

\* C10: when every entry of the static asset list is fetched, after the
\* install handler the current static partition exists and its keys are
\* exactly the 4 entries of the list, each with the response fetched for it.
C10_InstallStoresExactlyAssets ==
    [][\A f \in InstallFetches :
         (Install(f) /\ \A u \in StaticURLs : IsOk(f[u])) =>
            /\ lcState' = "installed"
            /\ caches'[CACHE_NAME]
            /\ Keys(static') = StaticURLs
            /\ Cardinality(Keys(static')) = 4
            /\ Len(STATIC_ASSETS) = 4
            /\ \A u \in StaticURLs : static'[u] = f[u]]_vars
\* The install handler has completed and the static partition holds the 4
\* assets.
C10_Witness ==
    /\ lcState = "installed"
    /\ caches[CACHE_NAME]
    /\ Keys(static) = StaticURLs
    /\ Cardinality(Keys(static)) = Len(STATIC_ASSETS)

\* C11 as stated: when the handling of a CLEAR_CACHE message completes,
\* every partition that existed when it was issued has been deleted, so
\* that no partition exists.
C11_AsStated ==
    [][ClearDelete =>
         /\ \A n \in bg.names : ~caches'[n]
         /\ \A n \in CacheNames : ~caches'[n]]_vars
\* C11, amended: the handler takes the names of the partitions that exist
\* when the message is issued, and when it completes every one of them has
\* been deleted, static and runtime alike and whatever its version, with
\* its entries; a partition created under another name in the meantime is
\* left as it is.
C11_ClearDeletesSnapshot ==
    [][/\ \A data \in Messages : (Message(data) /\ IsClear(data)) =>
            /\ bg'.names = {n \in CacheNames : caches[n]}
            /\ bg'.pc = "deleting"
            /\ UNCHANGED <<caches, static, runtime>>
       /\ ClearDelete =>
            /\ \A n \in bg.names : ~caches'[n]
            /\ \A n \in CacheNames \ bg.names : caches'[n] = caches[n]
            /\ CACHE_NAME \in bg.names => static' = EmptyCache
            /\ CACHE_NAME \notin bg.names => static' = static
            /\ RUNTIME_CACHE \in bg.names => runtime'[1] = EmptyCache
            /\ RUNTIME_CACHE \notin bg.names => runtime' = runtime
            /\ bg'.pc = "done"]_vars
\* A CLEAR_CACHE issued while the old static, the current static and the
\* runtime partition existed has completed and no partition exists.
C11_Witness ==
    /\ bg.listener = "message" /\ bg.pc = "done"
    /\ bg.names = CacheNames
    /\ \A n \in CacheNames : ~caches[n]

\* A CLEAR_CACHE handled from beginning to end with no other event in
\* between, as a function of the CacheStorage: the name map, the static
\* entries and the runtime objects with their holders.
ClearOnce(cs, c, st) ==
    LET names == Range(CachesKeys(cs))
    IN [cs |-> CachesDeleteAll(cs, names),
        c  |-> StaticAfterDelete(c, names),
        st |-> RuntimeAfterDelete(st, cs, names)]

\* C12: from any state, CLEAR_CACHE issued twice in a row leaves what
\* CLEAR_CACHE issued once leaves, no partition and no entry; the second one
\* finds no name to delete, changes nothing and completes.
C12_ClearIdempotent ==
    [][/\ LET once  == ClearOnce(caches, static, Storage(runtime, lastWritten, hs))
              twice == ClearOnce(once.cs, once.c, once.st)
          IN /\ twice = once
             /\ \A n \in CacheNames : ~once.cs[n]
             /\ once.c = EmptyCache
             /\ once.st.rt[1] = EmptyCache
             /\ CachesKeys(once.cs) = << >>
       /\ (ClearDelete /\ \A n \in CacheNames : ~caches[n]) =>
             /\ UNCHANGED <<caches, static, runtime, hs, lastWritten>>
             /\ bg'.pc = "done"]_vars
\* After the install a CLEAR_CACHE has deleted the static partition, and a
\* second one, issued when no partition was left, has completed too.
C12_Witness ==
    /\ lcState = "installed"
    /\ bg.listener = "message" /\ bg.pc = "done"
    /\ bg.names = {}
    /\ \A n \in CacheNames : ~caches[n]

\* C13: a SKIP_WAITING message calls skipWaiting() and changes no
\* partition; a message whose type is neither SKIP_WAITING nor CLEAR_CACHE,
\* or that has no data or no type, changes nothing at all and its handler
\* returns normally.
C13_MessageDispatch ==
    [][\A data \in Messages : Message(data) =>
         /\ (data.hasData /\ data.type = "SKIP_WAITING") =>
               /\ skipWaitingFlag'
               /\ UNCHANGED <<lcState, claimed, caches, static, runtime, hs, bg>>
         /\ ~(data.hasData /\ data.type \in {"SKIP_WAITING", "CLEAR_CACHE"}) =>
               UNCHANGED vars]_vars
\* The worker that is still installing has been told to skip waiting, and
\* the partitions are as they were.
C13_Witness ==
    /\ lcState = "installing"
    /\ skipWaitingFlag
    /\ bg = NoEvent
    /\ caches = [n \in CacheNames |-> n # CACHE_NAME]
    /\ Keys(runtime[1]) # {}

\* C14: the sync and periodicsync handlers do no work: for every tag they
\* leave the names and entries of every partition, the fetch handlers and
\* the lifecycle as they are; for the tag each one recognizes the event is
\* given a task, which has completed when the handler is over; for another
\* tag it is given none.
C14_SyncStubs ==
    [][/\ \A tag \in SyncTags : Sync(tag) =>
            /\ UNCHANGED <<lcState, skipWaitingFlag, claimed, caches, static, runtime, hs>>
            /\ bg'.pc = "done"
            /\ (tag = "sync-game-stats") = (bg'.task = "syncGameStats")
            /\ (tag # "sync-game-stats") = (bg'.task = "")
       /\ \A tag \in PeriodicSyncTags : PeriodicSync(tag) =>
            /\ UNCHANGED <<lcState, skipWaitingFlag, claimed, caches, static, runtime, hs>>
            /\ bg'.pc = "done"
            /\ (tag = "daily-challenge") = (bg'.task = "checkDailyChallenge")
            /\ (tag # "daily-challenge") = (bg'.task = "")
       /\ (EventDone /\ bg.listener \in {"sync", "periodicsync"}) =>
            UNCHANGED <<lcState, skipWaitingFlag, claimed, caches, static, runtime, hs>>]_vars
\* A sync event with the recognized tag has been acknowledged with its
\* task while a fetch handler was in flight and the partitions held entries.
C14_Witness ==
    /\ bg.listener = "sync" /\ bg.arg = "sync-game-stats"
    /\ bg.task = "syncGameStats" /\ bg.pc = "done"
    /\ \E r \in InFlight : r.pc = "fetching"
    /\ Keys(static) = StaticURLs
    /\ Keys(runtime[1]) # {}

\* The entries of a partition, by name.
Entries(n, c, rt) ==
    IF n = CACHE_NAME THEN Keys(c) ELSE IF n = RUNTIME_CACHE THEN Keys(rt[1]) ELSE {}

\* C15 as stated: a handler that brings a partition into existence writes
\* an entry to it.
C15_AsStated ==
    [][\A n \in CacheNames : (~caches[n] /\ caches'[n]) =>
         Entries(n, static', runtime') # {}]_vars
\* C15, amended: a partition is created when a handler opens it, written
\* to or not.  The install handler opens the static partition and leaves
\* it empty when an asset fails; an intercepted request opens the runtime
\* partition before its fetch and writes nothing then; a fallback that
\* misses in the runtime partition opens the static partition and writes
\* nothing.  No other step creates a partition.
C15_CreatedByOpen ==
    [][/\ \A n \in CacheNames : (~caches[n] /\ caches'[n]) =>
            \/ /\ n = CACHE_NAME
               /\ \E f \in InstallFetches :
                     /\ Install(f)
                     /\ Keys(static') = IF AddAllOk(f) THEN StaticURLs ELSE {}
            \/ /\ n = RUNTIME_CACHE
               /\ \E request \in Requests : FetchEvent(request) /\ Intercepts(request)
               /\ Keys(runtime'[1]) = {}
            \/ /\ n = CACHE_NAME
               /\ \E r \in InFlight :
                     FetchReject(r) /\ runtime[r.cache][r.req.url] = NoEntry
               /\ Keys(static') = {}
       /\ \A f \in InstallFetches : Install(f) => caches'[CACHE_NAME]
       /\ \A request \in Requests :
            (FetchEvent(request) /\ Intercepts(request)) => caches'[RUNTIME_CACHE]
       /\ \A r \in InFlight :
            (FetchReject(r) /\ runtime[r.cache][r.req.url] = NoEntry) =>
                caches'[CACHE_NAME]]_vars
\* The static partition, deleted after the install, exists again and is
\* empty: a fallback opened it and answered with the synthesized response.
C15_Witness ==
    /\ lcState = "activated"
    /\ caches[CACHE_NAME]
    /\ Keys(static) = {}
    /\ \E r \in InFlight : r.pc = "done" /\ r.src = "offline"

\* C16: a partition is deleted only by the sweep of the activate handler or
\* by the deletes of a CLEAR_CACHE message; no step of the install, fetch,
\* sync, periodicsync, push and notificationclick handlers, and no message
\* of another type, removes a partition or empties one.
C16_DeletedOnlyBySweepOrClear ==
    [][/\ \A n \in CacheNames : (caches[n] /\ ~caches'[n]) =>
            \/ ActivateSweep /\ ~ActivateKeeps(n)
            \/ ClearDelete /\ n \in bg.names
       /\ (~ActivateSweep /\ ~ClearDelete) =>
            /\ \A n \in CacheNames : caches[n] => caches'[n]
            /\ Keys(static) \subseteq Keys(static')
            /\ Keys(runtime[1]) \subseteq Keys(runtime'[1])]_vars
\* After the install, the activation, a request answered from the network
\* and a notification click, the static and the runtime partition are
\* there with their entries.
C16_Witness ==
    /\ bg.listener = "notificationclick" /\ bg.task = "openWindow"
    /\ skipWaitingFlag
    /\ \E r \in InFlight : r.pc = "done" /\ r.src = "network" /\ r.put = "applied"
    /\ caches[CACHE_NAME] /\ Keys(static) = StaticURLs
    /\ caches[RUNTIME_CACHE] /\ Keys(runtime[1]) # {}

\* C17: the handler returns a status-200 network response while the put of
\* its clone is still pending, and neither the failure nor the success of
\* that put changes the response returned or takes it back; a put that
\* fails changes no entry.
C17_DetachedWrite ==
    [][\A r \in InFlight :
         /\ \A resp \in Served(r.req.url) :
              (FetchResolve(r, resp) /\ resp.status = 200) =>
                 \E r2 \in BagToSet(hs') :
                    /\ Stepped(r, r2)
                    /\ r2.pc = "done" /\ r2.resp = resp /\ r2.put = "pending"
                    /\ runtime'[1] = runtime[1]
         /\ PutReject(r) =>
              /\ r.pc = "done" /\ r.resp.status = 200
              /\ \E r2 \in BagToSet(hs') :
                    /\ Stepped(r, r2)
                    /\ r2.pc = "done" /\ r2.resp = r.resp /\ r2.src = r.src
                    /\ r2.put = "failed"
              /\ runtime'[1] = runtime[1]
              /\ static' = static
         /\ PutResolve(r) =>
              /\ r.pc = "done"
              /\ \E r2 \in BagToSet(hs') :
                    /\ r2 = [r EXCEPT !.put = "applied", !.cache = 0]
                    /\ r2.pc = "done" /\ r2.resp = r.resp /\ r2.src = r.src]_vars
\* A handler has returned the status-200 network response although its put
\* failed and the runtime partition holds no entry for the request.
C17_Witness ==
    \E r \in InFlight :
        /\ r.pc = "done" /\ r.src = "network" /\ r.resp.status = 200
        /\ r.resp.url = r.req.url
        /\ r.put = "failed"
        /\ caches[RUNTIME_CACHE] /\ runtime[1][r.req.url] = NoEntry

\* Every object of the runtime partition holds, for each URL, the response
\* of the put applied to it last, whole.
WholeLastWrite(rt, lw) ==
    \A i \in 1..Len(rt) : \A u \in AllURLs :
        /\ rt[i][u] = lw[i][u]
        /\ rt[i][u] # NoEntry => rt[i][u] \in Served(u)

\* C18: when two intercepted requests for one URL are in flight together
\* and both receive a status-200 response, then in every order of their
\* fetches and puts each put that is applied replaces the entry for the URL
\* with its own response and leaves the other entries alone: the partition
\* holds one entry for the URL, the response of the put applied last, never
\* none and never a mixture of the two.
C18_ConcurrentLastWriteWins ==
    [][/\ WholeLastWrite(runtime, lastWritten)
       /\ WholeLastWrite(runtime', lastWritten')
       /\ \A r \in InFlight : PutResolve(r) =>
            /\ r.cache > 0
            /\ Len(runtime') = Len(runtime) =>
                  /\ runtime'[r.cache][r.req.url] = r.resp
                  /\ \A u \in AllURLs \ {r.req.url} :
                        runtime'[r.cache][u] = runtime[r.cache][u]
            /\ r.cache = 1 => runtime'[1][r.req.url] = r.resp]_vars
\* Two handlers received different status-200 responses for one URL and
\* both puts were applied: the runtime partition holds one of the two.
C18_Witness ==
    \E r \in InFlight : \E g \in InFlight :
        /\ r.req.url = g.req.url
        /\ r.src = "network" /\ g.src = "network"
        /\ r.resp.status = 200 /\ g.resp.status = 200
        /\ r.resp.payload # g.resp.payload
        /\ r.put = "applied" /\ g.put = "applied"
        /\ caches[RUNTIME_CACHE]
        /\ runtime[1][r.req.url] = r.resp
        /\ lastWritten[1][r.req.url] = r.resp

\* Each key of the static partition is an entry of the static asset list,
\* and each entry of a runtime object is a status-200 response for its own
\* URL, the URL of a GET request over http or https.
OwnContents(c, rt) ==
    /\ Keys(c) \subseteq StaticURLs
    /\ \A i \in 1..Len(rt) : \A u \in Keys(rt[i]) :
          /\ rt[i][u].status = 200
          /\ rt[i][u].url = u
          /\ rt[i][u].error = ""
          /\ Protocol(u) \in {"http:", "https:"}
          /\ \E request \in Requests : request.url = u /\ request.method = "GET"

\* C19: an entry is written to the static partition only by the install
\* handler and to the runtime partition only by the put of a fetch handler
\* that got its response from the network; in every reachable state each
\* key of the static partition is an entry of the static asset list and
\* every entry of the runtime partition is a status-200 network response to
\* an intercepted GET http/https request.
C19_OwnWriters ==
    [][/\ OwnContents(static, runtime)
       /\ OwnContents(static', runtime')
       /\ \A u \in AllURLs :
            (static'[u] # static[u] /\ static'[u] # NoEntry) =>
                \E f \in InstallFetches : Install(f) /\ static'[u] = f[u]
       /\ \A u \in AllURLs :
            (runtime'[1][u] # runtime[1][u] /\ runtime'[1][u] # NoEntry) =>
                \E r \in InFlight :
                   /\ PutResolve(r)
                   /\ r.req.url = u /\ r.req.method = "GET"
                   /\ Protocol(u) \in {"http:", "https:"}
                   /\ r.src = "network" /\ r.resp.status = 200
                   /\ runtime'[1][u] = r.resp]_vars
\* The active worker's static partition holds the asset list, the runtime
\* partition a later revision of ./index.html, and the 404 a handler got
\* for the missing resource is in neither.
C19_Witness ==
    /\ lcState = "activated"
    /\ Keys(static) = StaticURLs
    /\ Keys(runtime[1]) = {IndexURL}
    /\ runtime[1][IndexURL].payload = "v2"
    /\ \E r \in InFlight :
          /\ r.req.url = MissingURL /\ r.pc = "done"
          /\ r.src = "network" /\ r.resp.status = 404

\* C20 as stated, for a handler in flight when the message arrived: once
\* the handling of a CLEAR_CACHE has completed (the runtime object the
\* handler opened has been deleted), its fallback does not return the entry
\* that object has held for the request since before the message was
\* issued.
C20_AsStated ==
    [][\A r \in InFlight : (FetchReject(r) /\ r.stale /\ r.cache > 1) =>
         \E r2 \in BagToSet(hs') :
            /\ Stepped(r, r2)
            /\ r2.src # "runtime"
            /\ r2.resp # runtime[r.cache][r.req.url]]_vars

====
